---- MODULE Spec2Model ----
(***************************************************************************)
(* Model of src/cell.rs: the Cell / CellValue token model of a Befunge     *)
(* style language, with the character decode (From<char>) and encode       *)
(* (From<CellValue> for char) conversions and the char_mapping! tables.    *)
(*                                                                         *)
(* A Rust char is modelled by its code point (a natural number), so that   *)
(* u32::from(char) and u32::to_string are computed and not assumed.        *)
(* An Option / the target of unwrap() is a sequence of length 0 or 1.      *)
(***************************************************************************)
EXTENDS Integers, Sequences, FiniteSets

(* ---------------------------------------------------------------- bounds *)

\* Input characters are the code points 0..MaxChar plus a few beyond ASCII.
MaxChar == 127

\* Number(n) inputs are 0..MaxSmallNumber plus a few larger u32 values (the
\* largest is 2^31 - 1, the largest integer the model checker represents).
MaxSmallNumber == 12

Chars == (0 .. MaxChar) \cup {233, 8364, 1114111}

Numbers == (0 .. MaxSmallNumber) \cup {48, 53, 57, 99, 100, 4096, 2147483647}

(* ------------------------------------------------- char_mapping! tables *)

NullaryOperatorTable ==
    << [variant |-> "Integer", c |-> 38],       \* '&'
       [variant |-> "Ascii", c |-> 126] >>      \* '~'

UnaryOperatorTable ==
    << [variant |-> "Negate", c |-> 33],        \* '!'
       [variant |-> "Duplicate", c |-> 58],     \* ':'
       [variant |-> "Pop", c |-> 36],           \* '$'
       [variant |-> "WriteNumber", c |-> 46],   \* '.'
       [variant |-> "WriteASCII", c |-> 44] >>  \* ','

\* BinaryOperatorTable with one character mistyped (a fault variant).
BinaryOperatorTypo ==
    << [variant |-> "Greater", c |-> 96],
       [variant |-> "Add", c |-> 43],
       [variant |-> "Subtract", c |-> 45],
       [variant |-> "Multiply", c |-> 42],
       [variant |-> "Divide", c |-> 47],
       [variant |-> "Modulo", c |-> 47],        \* '/' typed for '%'
       [variant |-> "Swap", c |-> 92],
       [variant |-> "Get", c |-> 103] >>

BinaryOperatorTable ==
    << [variant |-> "Greater", c |-> 96],       \* '`'
       [variant |-> "Add", c |-> 43],           \* '+'
       [variant |-> "Subtract", c |-> 45],      \* '-'
       [variant |-> "Multiply", c |-> 42],      \* '*'
       [variant |-> "Divide", c |-> 47],        \* '/'
       [variant |-> "Modulo", c |-> 37],        \* '%'
       [variant |-> "Swap", c |-> 92],          \* '\\'
       [variant |-> "Get", c |-> 103] >>        \* 'g'

\* TernaryOperatorTable reusing a BinaryOperator character (a fault variant).
TernaryOperatorClash ==
    << [variant |-> "Put", c |-> 103] >>        \* 'g' typed for 'p'

TernaryOperatorTable ==
    << [variant |-> "Put", c |-> 112] >>        \* 'p'

IfDirTable ==
    << [variant |-> "Horizontal", c |-> 95],    \* '_'
       [variant |-> "Vertical", c |-> 124] >>   \* '|'

DirectionTable ==
    << [variant |-> "Up", c |-> 94],            \* '^'
       [variant |-> "Down", c |-> 118],         \* 'v'
       [variant |-> "Left", c |-> 60],          \* '<'
       [variant |-> "Right", c |-> 62],         \* '>'
       [variant |-> "Random", c |-> 63] >>      \* '?'

EnumNames ==
    {"NullaryOperator", "UnaryOperator", "BinaryOperator", "TernaryOperator",
     "IfDir", "Direction"}

\* The table the macro invocation gives for each enum.
Table(enum) ==
    CASE enum = "NullaryOperator" -> NullaryOperatorTable
      [] enum = "UnaryOperator" -> UnaryOperatorTable
      [] enum = "BinaryOperator" -> BinaryOperatorTable
      [] enum = "TernaryOperator" -> TernaryOperatorTable
      [] enum = "IfDir" -> IfDirTable
      [] enum = "Direction" -> DirectionTable

Variants(enum) == {Table(enum)[i].variant : i \in 1 .. Len(Table(enum))}

(* ------------------------------------------- char_mapping! generated code *)

Min(S) == CHOOSE x \in S : \A y \in S : x <= y

\* impl TryFrom<char> for $enum: a match whose arms are the table's
\* characters in order (the first matching arm is taken), with a final
\* catch-all arm returning Err.
TryFrom(enum, value) ==
    LET tbl  == Table(enum)
        arms == {i \in 1 .. Len(tbl) : tbl[i].c = value}
    IN  IF arms = {}
        THEN [ok |-> FALSE, err |-> <<enum, value>>]
        ELSE [ok |-> TRUE, variant |-> tbl[Min(arms)].variant]

\* impl From<$enum> for char: a match on the variant, one arm per row.
CharFromEnum(enum, variant) ==
    LET tbl  == Table(enum)
        arms == {i \in 1 .. Len(tbl) : tbl[i].variant = variant}
    IN  tbl[Min(arms)].c

(* ---------------------------------------------------------------- Operator *)

\* OperatorTryFrom with the Ternary attempt left out (a fault variant).
OperatorTryFromNoTernary(value) ==
    IF TryFrom("NullaryOperator", value).ok
    THEN [ok |-> TRUE,
          op |-> [kind |-> "Nullary",
                  variant |-> TryFrom("NullaryOperator", value).variant]]
    ELSE IF TryFrom("UnaryOperator", value).ok
    THEN [ok |-> TRUE,
          op |-> [kind |-> "Unary",
                  variant |-> TryFrom("UnaryOperator", value).variant]]
    ELSE IF TryFrom("BinaryOperator", value).ok
    THEN [ok |-> TRUE,
          op |-> [kind |-> "Binary",
                  variant |-> TryFrom("BinaryOperator", value).variant]]
    ELSE [ok |-> FALSE, err |-> <<"operator", value>>]

\* impl TryFrom<char> for Operator
OperatorTryFrom(value) ==
    IF TryFrom("NullaryOperator", value).ok
    THEN [ok |-> TRUE,
          op |-> [kind |-> "Nullary",
                  variant |-> TryFrom("NullaryOperator", value).variant]]
    ELSE IF TryFrom("UnaryOperator", value).ok
    THEN [ok |-> TRUE,
          op |-> [kind |-> "Unary",
                  variant |-> TryFrom("UnaryOperator", value).variant]]
    ELSE IF TryFrom("BinaryOperator", value).ok
    THEN [ok |-> TRUE,
          op |-> [kind |-> "Binary",
                  variant |-> TryFrom("BinaryOperator", value).variant]]
    ELSE IF TryFrom("TernaryOperator", value).ok
    THEN [ok |-> TRUE,
          op |-> [kind |-> "Ternary",
                  variant |-> TryFrom("TernaryOperator", value).variant]]
    ELSE [ok |-> FALSE, err |-> <<"operator", value>>]

\* The enum an Operator's arity wraps.
OperatorEnum(kind) ==
    CASE kind = "Nullary" -> "NullaryOperator"
      [] kind = "Unary" -> "UnaryOperator"
      [] kind = "Binary" -> "BinaryOperator"
      [] kind = "Ternary" -> "TernaryOperator"

\* impl From<Operator> for char
CharFromOperator(op) ==
    CASE op.kind = "Nullary" -> CharFromEnum("NullaryOperator", op.variant)
      [] op.kind = "Unary" -> CharFromEnum("UnaryOperator", op.variant)
      [] op.kind = "Binary" -> CharFromEnum("BinaryOperator", op.variant)
      [] op.kind = "Ternary" -> CharFromEnum("TernaryOperator", op.variant)

(* --------------------------------------------------------------- CellValue *)

\* enum Operator: an arity wrapping a variant of that arity's enum.
Operators ==
    UNION {{[kind |-> k, variant |-> x] : x \in Variants(OperatorEnum(k))} :
              k \in {"Nullary", "Unary", "Binary", "Ternary"}}

\* enum CellValue, its Number and Char payloads drawn from N and C.
CellValueOver(N, C) ==
    {[tag |-> "Empty"], [tag |-> "StringMode"], [tag |-> "Bridge"],
     [tag |-> "End"]}
    \cup {[tag |-> "Op", op |-> o] : o \in Operators}
    \cup {[tag |-> "Dir", dir |-> d] : d \in Variants("Direction")}
    \cup {[tag |-> "If", ifdir |-> d] : d \in Variants("IfDir")}
    \cup {[tag |-> "Number", num |-> n] : n \in N}
    \cup {[tag |-> "Char", c |-> x] : x \in C}

CellValues == CellValueOver(Numbers, Chars)

\* u32::from(char): the code point of the char (at most 0x10FFFF, so it
\* always fits a u32), which is what a char is represented by here.
U32FromChar(v) == v

\* CellValueFromChar storing the digit's value, not its code point (a fault
\* variant).
CellValueFromCharDigitValue(value) ==
    IF value = 32 THEN [tag |-> "Empty"]
    ELSE IF value = 34 THEN [tag |-> "StringMode"]
    ELSE IF value = 35 THEN [tag |-> "Bridge"]
    ELSE IF value = 64 THEN [tag |-> "End"]
    ELSE IF value \in 48 .. 57 THEN [tag |-> "Number", num |-> value - 48]
    ELSE IF OperatorTryFrom(value).ok
    THEN [tag |-> "Op", op |-> OperatorTryFrom(value).op]
    ELSE IF TryFrom("Direction", value).ok
    THEN [tag |-> "Dir", dir |-> TryFrom("Direction", value).variant]
    ELSE [tag |-> "Char", c |-> value]

\* CellValueFromChar with an IfDir attempt after Direction (a variant).
CellValueFromCharWithIf(value) ==
    IF value = 32 THEN [tag |-> "Empty"]
    ELSE IF value = 34 THEN [tag |-> "StringMode"]
    ELSE IF value = 35 THEN [tag |-> "Bridge"]
    ELSE IF value = 64 THEN [tag |-> "End"]
    ELSE IF value \in 48 .. 57 THEN [tag |-> "Number", num |-> U32FromChar(value)]
    ELSE IF OperatorTryFrom(value).ok
    THEN [tag |-> "Op", op |-> OperatorTryFrom(value).op]
    ELSE IF TryFrom("Direction", value).ok
    THEN [tag |-> "Dir", dir |-> TryFrom("Direction", value).variant]
    ELSE IF TryFrom("IfDir", value).ok
    THEN [tag |-> "If", ifdir |-> TryFrom("IfDir", value).variant]
    ELSE [tag |-> "Char", c |-> value]

\* CellValueFromChar folding the case of pass-through letters (a fault
\* variant).
CellValueFromCharLowercased(value) ==
    IF value = 32 THEN [tag |-> "Empty"]
    ELSE IF value = 34 THEN [tag |-> "StringMode"]
    ELSE IF value = 35 THEN [tag |-> "Bridge"]
    ELSE IF value = 64 THEN [tag |-> "End"]
    ELSE IF value \in 48 .. 57 THEN [tag |-> "Number", num |-> U32FromChar(value)]
    ELSE IF OperatorTryFrom(value).ok
    THEN [tag |-> "Op", op |-> OperatorTryFrom(value).op]
    ELSE IF TryFrom("Direction", value).ok
    THEN [tag |-> "Dir", dir |-> TryFrom("Direction", value).variant]
    ELSE [tag |-> "Char",
          c |-> IF value \in 65 .. 90 THEN value + 32 ELSE value]

\* impl From<char> for CellValue
CellValueFromChar(value) ==
    IF value = 32 THEN [tag |-> "Empty"]                          \* ' '
    ELSE IF value = 34 THEN [tag |-> "StringMode"]                \* '"'
    ELSE IF value = 35 THEN [tag |-> "Bridge"]                    \* '#'
    ELSE IF value = 64 THEN [tag |-> "End"]                       \* '@'
    ELSE IF value \in 48 .. 57                                    \* '0'..='9'
    THEN [tag |-> "Number", num |-> U32FromChar(value)]
    ELSE IF OperatorTryFrom(value).ok
    THEN [tag |-> "Op", op |-> OperatorTryFrom(value).op]
    ELSE IF TryFrom("Direction", value).ok
    THEN [tag |-> "Dir", dir |-> TryFrom("Direction", value).variant]
    ELSE [tag |-> "Char", c |-> value]

\* u32::to_string: the decimal digits, most significant first, as chars.
RECURSIVE ToString(_)
ToString(num) ==
    IF num < 10
    THEN << 48 + num >>
    ELSE Append(ToString(num \div 10), 48 + (num % 10))

\* str::chars().next(): Some(first char) or None.
CharsNext(s) == IF s = << >> THEN << >> ELSE << Head(s) >>

\* CharFromCellValue taking the last digit of a Number (a fault variant).
CharFromCellValueLastDigit(value) ==
    CASE value.tag = "Empty" -> << 32 >>
      [] value.tag = "Op" -> << CharFromOperator(value.op) >>
      [] value.tag = "Dir" -> << CharFromEnum("Direction", value.dir) >>
      [] value.tag = "If" -> << CharFromEnum("IfDir", value.ifdir) >>
      [] value.tag = "StringMode" -> << 34 >>
      [] value.tag = "Bridge" -> << 35 >>
      [] value.tag = "End" -> << 64 >>
      [] value.tag = "Number" -> << 48 + (value.num % 10) >>
      [] value.tag = "Char" -> << value.c >>

\* impl From<CellValue> for char.  The result is << c >>, or << >> when
\* the unwrap() of the Number arm panics.
CharFromCellValue(value) ==
    CASE value.tag = "Empty" -> << 32 >>
      [] value.tag = "Op" -> << CharFromOperator(value.op) >>
      [] value.tag = "Dir" -> << CharFromEnum("Direction", value.dir) >>
      [] value.tag = "If" -> << CharFromEnum("IfDir", value.ifdir) >>
      [] value.tag = "StringMode" -> << 34 >>
      [] value.tag = "Bridge" -> << 35 >>
      [] value.tag = "End" -> << 64 >>
      [] value.tag = "Number" -> CharsNext(ToString(value.num))
      [] value.tag = "Char" -> << value.c >>

(* -------------------------------------------------------------------- Cell *)

\* CellFromCellValue starting at heat 1 (a fault variant).
CellFromCellValueHot(value) == [value |-> value, heat |-> 1]

\* impl From<CellValue> for Cell
CellFromCellValue(value) == [value |-> value, heat |-> 0]

\* impl From<char> for Cell
CellFromChar(value) == CellFromCellValue(CellValueFromChar(value))

(* ------------------------------------------------------------ the machine *)

\* input : the argument of the call under study, [kind |-> "char", c |-> _]
\*         or [kind |-> "value", v |-> _]
\* last  : the calls made so far on it ("none" before the first)
\* value : the CellValue returned by the last decode (length 0 or 1)
\* ch    : the char returned by the last encode / enum encode
\* cell  : the Cell returned by the last Cell::from
\* res   : the Result returned by the last try_from
\* enum  : the enum the last sub-table call was made on ("" when none)
\* fault : TRUE when the last call panicked instead of returning
VARIABLES input, last, value, ch, cell, res, enum, fault

vars == << input, last, value, ch, cell, res, enum, fault >>

Init ==
    /\ input \in {[kind |-> "char", c |-> x] : x \in Chars}
                 \cup {[kind |-> "value", v |-> x] : x \in CellValues}
    /\ last = "none"
    /\ value = << >>
    /\ ch = << >>
    /\ cell = << >>
    /\ res = << >>
    /\ enum = ""
    /\ fault = FALSE

\* The enum and variant a CellValue wraps (Op, Dir and If only).
WrappedEnum(v) ==
    CASE v.tag = "Op" -> OperatorEnum(v.op.kind)
      [] v.tag = "Dir" -> "Direction"
      [] v.tag = "If" -> "IfDir"

WrappedVariant(v) ==
    CASE v.tag = "Op" -> v.op.variant
      [] v.tag = "Dir" -> v.dir
      [] v.tag = "If" -> v.ifdir

\* CellValue::from(c) on the input character.
Decode ==
    /\ input.kind = "char"
    /\ last = "none"
    /\ value' = << CellValueFromChar(input.c) >>
    /\ fault' = FALSE
    /\ last' = "decode"
    /\ UNCHANGED << input, ch, cell, res, enum >>

\* char::from(v) on the value just decoded.
EncodeDecoded ==
    /\ last = "decode"
    /\ ~fault
    /\ ch' = CharFromCellValue(value[1])
    /\ fault' = (CharFromCellValue(value[1]) = << >>)
    /\ last' = "decode_encode"
    /\ UNCHANGED << input, value, cell, res, enum >>

\* char::from(v) on the input value.
Encode ==
    /\ input.kind = "value"
    /\ last = "none"
    /\ ch' = CharFromCellValue(input.v)
    /\ fault' = (CharFromCellValue(input.v) = << >>)
    /\ last' = "encode"
    /\ UNCHANGED << input, value, cell, res, enum >>

\* CellValue::from(c) on the character just encoded.
DecodeEncoded ==
    /\ last = "encode"
    /\ ~fault
    /\ value' = << CellValueFromChar(ch[1]) >>
    /\ fault' = FALSE
    /\ last' = "encode_decode"
    /\ UNCHANGED << input, ch, cell, res, enum >>

\* Cell::from(v) on the input value.
NewCellFromValue ==
    /\ input.kind = "value"
    /\ last = "none"
    /\ cell' = << CellFromCellValue(input.v) >>
    /\ fault' = FALSE
    /\ last' = "cell_from_value"
    /\ UNCHANGED << input, value, ch, res, enum >>

\* Cell::from(c) on the input character.
NewCellFromChar ==
    /\ input.kind = "char"
    /\ last = "none"
    /\ cell' = << CellFromChar(input.c) >>
    /\ fault' = FALSE
    /\ last' = "cell_from_char"
    /\ UNCHANGED << input, value, ch, res, enum >>

\* Operator::try_from(c) on the input character.
TryOperator ==
    /\ input.kind = "char"
    /\ last = "none"
    /\ res' = << OperatorTryFrom(input.c) >>
    /\ fault' = FALSE
    /\ last' = "operator_try_from"
    /\ UNCHANGED << input, value, ch, cell, enum >>

\* $enum::try_from(c) on the input character, for one of the six enums.
TryEnum(e) ==
    /\ input.kind = "char"
    /\ last = "none"
    /\ res' = << TryFrom(e, input.c) >>
    /\ enum' = e
    /\ fault' = FALSE
    /\ last' = "enum_try_from"
    /\ UNCHANGED << input, value, ch, cell >>

\* char::from(variant) on the variant try_from just returned.
EncodeTried ==
    /\ last = "enum_try_from"
    /\ res[1].ok
    /\ ch' = << CharFromEnum(enum, res[1].variant) >>
    /\ fault' = FALSE
    /\ last' = "enum_try_from_encode"
    /\ UNCHANGED << input, value, cell, res, enum >>

\* char::from(variant) on the variant the input value wraps.
EncodeEnum ==
    /\ input.kind = "value"
    /\ input.v.tag \in {"Op", "Dir", "If"}
    /\ last = "none"
    /\ ch' = << CharFromEnum(WrappedEnum(input.v), WrappedVariant(input.v)) >>
    /\ enum' = WrappedEnum(input.v)
    /\ fault' = FALSE
    /\ last' = "enum_encode"
    /\ UNCHANGED << input, value, cell, res >>

\* $enum::try_from(c) on the character just encoded from a variant.
TryEncoded ==
    /\ last = "enum_encode"
    /\ res' = << TryFrom(enum, ch[1]) >>
    /\ fault' = FALSE
    /\ last' = "enum_encode_try_from"
    /\ UNCHANGED << input, value, ch, cell, enum >>

Next ==
    \/ Decode
    \/ EncodeDecoded
    \/ Encode
    \/ DecodeEncoded
    \/ NewCellFromValue
    \/ NewCellFromChar
    \/ TryOperator
    \/ \E e \in EnumNames : TryEnum(e)
    \/ EncodeTried
    \/ EncodeEnum
    \/ TryEncoded

Spec == Init /\ [][Next]_vars

(* ------------------------------------------------- vocabulary of the claims *)

OperatorEnums ==
    {"NullaryOperator", "UnaryOperator", "BinaryOperator", "TernaryOperator"}

\* c is the character of some row of the enum's symbol table.
InTable(e, c) == \E i \in 1 .. Len(Table(e)) : Table(e)[i].c = c

\* The variants / characters a symbol table pairs with c / with variant x.
PairedVariants(e, c) ==
    {Table(e)[i].variant : i \in {j \in 1 .. Len(Table(e)) : Table(e)[j].c = c}}

PairedChars(e, x) ==
    {Table(e)[i].c : i \in {j \in 1 .. Len(Table(e)) : Table(e)[j].variant = x}}

IsDigit(c) == c \in 48 .. 57

IsFixedSymbol(c) == c \in {32, 34, 35, 64}

\* A well-formed CellValue: one of the nine variants, with a payload of the
\* variant's type (a u32 is below 65536 * 65536, a char a code point).
IsCellValue(v) ==
    \/ v \in CellValueOver({}, {})
    \/ v.tag = "Number" /\ DOMAIN v = {"tag", "num"} /\ v.num \in Nat
                        /\ v.num \div 65536 < 65536
    \/ v.tag = "Char" /\ DOMAIN v = {"tag", "c"} /\ v.c \in 0 .. 1114111

\* The first of the arity tables, tried in the given order, that holds c.
RECURSIVE FirstMatch(_, _)
FirstMatch(order, c) ==
    IF order = << >>
    THEN [ok |-> FALSE, err |-> <<"operator", c>>]
    ELSE IF InTable(OperatorEnum(Head(order)), c)
    THEN [ok |-> TRUE,
          op |-> [kind |-> Head(order),
                  variant |-> CHOOSE x \in
                      PairedVariants(OperatorEnum(Head(order)), c) : TRUE]]
    ELSE FirstMatch(Tail(order), c)

Arities == {"Nullary", "Unary", "Binary", "Ternary"}

Orders ==
    {o \in [1 .. 4 -> Arities] : \A i, j \in 1 .. 4 : o[i] = o[j] => i = j}

\* The leading decimal digit of n.
RECURSIVE LeadingDigit(_)
LeadingDigit(n) == IF n < 10 THEN n ELSE LeadingDigit(n \div 10)

(* ------------------------------------------------------------------ claims *)

\* C1: for every (variant, character) pair of the six symbol tables, with
\* the variant wrapped as Op(..), Dir(..) or If(..), encoding the decoded
\* character gives the character back and decoding the encoded variant
\* gives the variant back.
C1_SymbolRoundTrip ==
    /\ (last = "decode_encode" /\ \E e \in EnumNames : InTable(e, input.c))
           => ch = << input.c >>
    /\ (last = "encode_decode" /\ input.v.tag \in {"Op", "Dir", "If"})
           => value = << input.v >>

\* C2: for every character c, encoding the value decoded from c gives c.
C2_CharRoundTrip ==
    last = "decode_encode" => ch = << input.c >>

\* C3: within each of the six enums, distinct variants encode to distinct
\* characters, try_from of a variant's character succeeds with that
\* variant, and the character of a variant try_from returned is the
\* character try_from was given.
C3_EnumBijection ==
    /\ last = "enum_encode" =>
           \A w \in Variants(enum) \ {WrappedVariant(input.v)} :
               << CharFromEnum(enum, w) >> # ch
    /\ last = "enum_encode_try_from" =>
           /\ res[1].ok
           /\ res[1].variant = WrappedVariant(input.v)
    /\ last = "enum_try_from_encode" => ch = << input.c >>

C3_Witness ==
    /\ last = "enum_encode_try_from"
    /\ enum = "BinaryOperator"
    /\ ch = << 37 >>
    /\ res[1].ok
    /\ res[1].variant = "Modulo"

\* C4: a character of the Nullary, Unary, Binary or Ternary table is in
\* exactly one of the four, so Operator::try_from returns the same result
\* whatever the order the four tables are tried in.
C4_NoCrossTableCollision ==
    (last = "operator_try_from") =>
        /\ Cardinality({e \in OperatorEnums : InTable(e, input.c)}) <= 1
        /\ res[1].ok =>
               Cardinality({e \in OperatorEnums : InTable(e, input.c)}) = 1
        /\ \A o \in Orders : FirstMatch(o, input.c) = res[1]

C4_Witness ==
    /\ last = "operator_try_from"
    /\ input.c = 103
    /\ res[1].ok
    /\ res[1].op = [kind |-> "Binary", variant |-> "Get"]

\* C5: decode returns a CellValue for every character, without fault, and
\* a character in no symbol table that is neither a digit nor one of
\* ' ', '"', '#', '@' decodes to Char of exactly that character.
C5_DecodeTotalWithFallback ==
    last = "decode" =>
        /\ ~fault
        /\ Len(value) = 1
        /\ IsCellValue(value[1])
        /\ (/\ \A e \in EnumNames : ~InTable(e, input.c)
            /\ ~IsDigit(input.c)
            /\ ~IsFixedSymbol(input.c))
               => value[1] = [tag |-> "Char", c |-> input.c]

C5_Witness ==
    /\ last = "decode"
    /\ input.c = 88
    /\ value = << [tag |-> "Char", c |-> 88] >>

\* C6: decode is the ordered first-match classification: ' ' is Empty,
\* '"' StringMode, '#' Bridge, '@' End, a digit Number(its code point, in
\* 48..57), then a character of an operator table Op(its operator), then a
\* character of the Direction table Dir(its direction), else Char(c).
C6_DecodeClassification ==
    last = "decode" =>
        LET c == input.c
            v == value[1]
        IN  /\ c = 32 => v = [tag |-> "Empty"]
            /\ c = 34 => v = [tag |-> "StringMode"]
            /\ c = 35 => v = [tag |-> "Bridge"]
            /\ c = 64 => v = [tag |-> "End"]
            /\ IsDigit(c) => v = [tag |-> "Number", num |-> c]
            /\ c = 53 => v = [tag |-> "Number", num |-> 53]
            /\ c = 43 => v = [tag |-> "Op",
                              op |-> [kind |-> "Binary", variant |-> "Add"]]
            /\ (~IsFixedSymbol(c) /\ ~IsDigit(c)) =>
                   IF \E e \in OperatorEnums : InTable(e, c)
                   THEN /\ v.tag = "Op"
                        /\ v.op \in Operators
                        /\ c \in PairedChars(OperatorEnum(v.op.kind),
                                             v.op.variant)
                   ELSE IF InTable("Direction", c)
                   THEN /\ v.tag = "Dir"
                        /\ c \in PairedChars("Direction", v.dir)
                   ELSE v = [tag |-> "Char", c |-> c]

C6_Witness ==
    /\ last = "decode"
    /\ input.c = 53
    /\ value = << [tag |-> "Number", num |-> 53] >>

\* C7: encode returns exactly one character for every CellValue, without
\* fault: the fixed symbol of Empty, StringMode, Bridge and End, the table
\* character of the variant Op, Dir and If wrap, c for Char(c), and the
\* first character of the decimal rendering of n for Number(n).
C7_EncodeTotalAndTabled ==
    last = "encode" =>
        LET v == input.v
        IN  /\ ~fault
            /\ Len(ch) = 1
            /\ v.tag = "Empty" => ch[1] = 32
            /\ v.tag = "StringMode" => ch[1] = 34
            /\ v.tag = "Bridge" => ch[1] = 35
            /\ v.tag = "End" => ch[1] = 64
            /\ v.tag \in {"Op", "Dir", "If"} =>
                   PairedChars(WrappedEnum(v), WrappedVariant(v)) = {ch[1]}
            /\ v.tag = "Char" => ch[1] = v.c
            /\ v.tag = "Number" => ch[1] = 48 + LeadingDigit(v.num)
            /\ (v.tag = "Number" /\ v.num \in 0 .. 9) => ch[1] = 48 + v.num
            /\ v = [tag |-> "Number", num |-> 5] => ch[1] = 53

C7_Witness ==
    /\ last = "encode"
    /\ input.v = [tag |-> "Number", num |-> 100]
    /\ ch = << 49 >>

\* C8: Cell::from(v) has heat 0 and value v, and Cell::from(c) has heat 0
\* and the value decoded from c.
C8_FreshCellHeat ==
    /\ last = "cell_from_value" =>
           /\ cell[1].heat = 0
           /\ cell[1].value = input.v
    /\ last = "cell_from_char" =>
           /\ cell[1].heat = 0
           /\ cell[1].value = CellValueFromChar(input.c)

C8_Witness ==
    /\ last = "cell_from_char"
    /\ input.c = 62
    /\ cell = << [value |-> [tag |-> "Dir", dir |-> "Right"], heat |-> 0] >>

\* C9: Operator::try_from returns the match of the first of the Nullary,
\* Unary, Binary, Ternary tables holding c, and Err exactly when none
\* does; each enum's try_from returns Err exactly when c is not in its
\* table; and decode never returns or faults on such an Err: it goes on to
\* the next classification step.
C9_DecodeFailureAbsorbed ==
    /\ last = "operator_try_from" =>
           /\ res[1] = FirstMatch(<<"Nullary", "Unary", "Binary", "Ternary">>,
                                  input.c)
           /\ ~res[1].ok <=> \A e \in OperatorEnums : ~InTable(e, input.c)
    /\ last = "enum_try_from" =>
           /\ ~res[1].ok <=> ~InTable(enum, input.c)
           /\ res[1].ok => res[1].variant \in PairedVariants(enum, input.c)
    /\ last = "decode" =>
           /\ ~fault
           /\ IsCellValue(value[1])
           /\ (/\ ~IsFixedSymbol(input.c)
               /\ ~IsDigit(input.c)
               /\ \A e \in OperatorEnums : ~InTable(e, input.c))
                  => IF InTable("Direction", input.c)
                     THEN value[1].tag = "Dir"
                     ELSE value[1].tag = "Char"

C9_Witness ==
    /\ last = "decode"
    /\ input.c = 94
    /\ ~OperatorTryFrom(input.c).ok
    /\ value = << [tag |-> "Dir", dir |-> "Up"] >>

\* C10: decode returns If(..) for no character; '_' and '|' decode to
\* Char('_') and Char('|'), although IfDir::try_from accepts them and
\* encoding If(Horizontal) and If(Vertical) produces them.
C10_IfUnreachableFromDecode ==
    /\ last \in {"decode", "encode_decode"} => value[1].tag # "If"
    /\ (last = "decode" /\ input.c \in {95, 124})
           => value[1] = [tag |-> "Char", c |-> input.c]
    /\ (last = "enum_try_from" /\ enum = "IfDir" /\ input.c = 95)
           => res[1] = [ok |-> TRUE, variant |-> "Horizontal"]
    /\ (last = "enum_try_from" /\ enum = "IfDir" /\ input.c = 124)
           => res[1] = [ok |-> TRUE, variant |-> "Vertical"]
    /\ (last = "encode" /\ input.v = [tag |-> "If", ifdir |-> "Horizontal"])
           => ch = << 95 >>
    /\ (last = "encode" /\ input.v = [tag |-> "If", ifdir |-> "Vertical"])
           => ch = << 124 >>

C10_Witness ==
    /\ last = "decode"
    /\ input.c = 124
    /\ value = << [tag |-> "Char", c |-> 124] >>

====
